---- MODULE Spec2Model ----
(***************************************************************************)
(* Model of triage's cache-or-train pipeline: SimpleModelTrainer           *)
(* (triage/model_trainers.py) on top of the model stores                   *)
(* (triage/storage.py) and the results schema (triage/db.py).              *)
(*                                                                         *)
(* Data representation                                                     *)
(*   - a Python dict is a sequence of <<key, value>> pairs in insertion    *)
(*     order, keys unique;                                                 *)
(*   - a JSON value is [s |-> string], [n |-> integer] or                  *)
(*     [d |-> dict of JSON values];                                        *)
(*   - a file / S3 object is the sequence of pickled objects it holds:     *)
(*     <<>> is a created-but-empty (truncated) file, <<obj>> a complete    *)
(*     pickle of obj;                                                      *)
(*   - None is the record NoneValue.                                       *)
(***************************************************************************)
EXTENDS Integers, Sequences, FiniteSets, TLC

(***************************************************************************)
(* Bounds of the model.                                                    *)
(***************************************************************************)
\* number of train_models calls explored
MaxCalls == 2

\* values PYTHONHASHSEED / the per-process string-hash key can take
HashSeeds == {0, 1}

NoneValue == [none |-> TRUE]

\* every dict key used in the model, in Python's string order
\* (upper case sorts before lower case)
AllKeys == <<"C", "className", "end_time", "four", "label_name",
             "n_estimators", "one", "parameters", "penalty", "project_path",
             "six", "three", "training_metadata">>

(***************************************************************************)
(* Dict helpers.                                                           *)
(***************************************************************************)
Keys(dict) == {dict[i][1] : i \in 1..Len(dict)}

Get(dict, k) == dict[CHOOSE i \in 1..Len(dict) : dict[i][1] = k][2]

\* sorted(p.items())
SortedItems(dict) ==
    LET ks == SelectSeq(AllKeys, LAMBDA k : k \in Keys(dict))
    IN  [j \in 1..Len(ks) |-> <<ks[j], Get(dict, ks[j])>>]

RECURSIVE Flatten(_)
Flatten(seqs) ==
    IF seqs = <<>> THEN <<>> ELSE Head(seqs) \o Flatten(Tail(seqs))

\* itertools.product(*values): the last list varies fastest
RECURSIVE Product(_)
Product(values) ==
    IF values = <<>> THEN << <<>> >>
    ELSE LET rest == Product(Tail(values))
         IN  Flatten([i \in 1..Len(Head(values)) |->
                        [j \in 1..Len(rest) |-> <<Head(values)[i]>> \o rest[j]]])

\* ParameterGrid without `if not items: yield {}`: an empty mapping gives no
\* grid point
ParameterGrid_NoEmptyGrid(parameter_config) ==
    LET items == SortedItems(parameter_config)
    IN  IF items = <<>> THEN <<>>
        ELSE LET keys   == [i \in 1..Len(items) |-> items[i][1]]
                 values == [i \in 1..Len(items) |-> items[i][2]]
                 combos == Product(values)
             IN  [c \in 1..Len(combos) |->
                    [i \in 1..Len(keys) |-> <<keys[i], combos[c][i]>>]]

\* sklearn.grid_search.ParameterGrid(parameter_config), as a sequence
ParameterGrid(parameter_config) ==
    LET items == SortedItems(parameter_config)
    IN  IF items = <<>> THEN << <<>> >>
        ELSE LET keys   == [i \in 1..Len(items) |-> items[i][1]]
                 values == [i \in 1..Len(items) |-> items[i][2]]
                 combos == Product(values)
             IN  [c \in 1..Len(combos) |->
                    [i \in 1..Len(keys) |-> <<keys[i], combos[c][i]>>]]

\* _generate_model_configs with the `yield` outside the inner loop: only the
\* last parameters of each class path are yielded
_generate_model_configs_YieldOutsideLoop(model_config) ==
    Flatten([i \in 1..Len(model_config) |->
               LET grid_i == ParameterGrid(model_config[i][2])
               IN  IF grid_i = <<>> THEN <<>>
                   ELSE << <<model_config[i][1], grid_i[Len(grid_i)]>> >>])

\* SimpleModelTrainer._generate_model_configs, as the sequence it yields
_generate_model_configs(model_config) ==
    Flatten([i \in 1..Len(model_config) |->
               LET grid == ParameterGrid(model_config[i][2])
               IN  [j \in 1..Len(grid) |-> <<model_config[i][1], grid[j]>>]])

(***************************************************************************)
(* Identity.                                                               *)
(***************************************************************************)
\* json.dumps(value) without sort_keys: the keys stay in insertion order
JsonDumps_Unsorted(value) == value

\* json.dumps(value, sort_keys=True): the canonical text, kept as a tree
RECURSIVE JsonDumpsSorted(_)
JsonDumpsSorted(value) ==
    IF "d" \in DOMAIN value
    THEN LET items == SortedItems(value.d)
         IN  [d |-> [i \in 1..Len(items) |->
                       <<items[i][1], JsonDumpsSorted(items[i][2])>>]]
    ELSE value

\* hex(hash(text)): Python's str hash is keyed by the process's hash seed;
\* distinct (text, seed) pairs are taken to give distinct values
HexHash(text, seed) == [seed |-> seed, text |-> text]

\* the parameters of a grid point as a JSON value
ParamsJson(parameters) ==
    [d |-> [i \in 1..Len(parameters) |->
              <<parameters[i][1], [n |-> parameters[i][2]]>>]]

\* triage.utils.filename_friendly_hash(inputs): the md5 hex digest of
\* json.dumps(inputs, sort_keys=True); distinct texts are taken to give
\* distinct digests, and the digest does not depend on the process
filename_friendly_hash(inputs) == [md5 |-> JsonDumpsSorted(inputs)]

\* _model_hash that leaves project_path and training_metadata out of `unique`
_model_hash_NoContext(self, class_path, parameters) ==
    LET unique == [d |-> << <<"className", [s |-> class_path]>>,
                            <<"parameters", ParamsJson(parameters)>> >>]
    IN  HexHash(JsonDumpsSorted(unique), self.hash_seed)

\* SimpleModelTrainer._model_hash; self carries project_path,
\* matrix_store.metadata and the process's hash seed
_model_hash(self, class_path, parameters) ==
    LET unique == [d |-> << <<"className", [s |-> class_path]>>,
                            <<"parameters", ParamsJson(parameters)>>,
                            <<"project_path", [s |-> self.project_path]>>,
                            <<"training_metadata", self.metadata>> >>]
    IN  HexHash(JsonDumpsSorted(unique), self.hash_seed)

(***************************************************************************)
(* Stores.  The state of a backend is a function from the locations that   *)
(* hold a file / object to its content.                                    *)
(***************************************************************************)
\* pickle.dumps(obj): a stream holding one pickled object
PickleDumps(obj) == <<obj>>

\* what a call that raises exc evaluates to
Raised(exc) == [raised |-> exc]

\* pickle.load(f): the first object of the stream; an empty stream is EOFError
PickleLoad(content) == IF content = <<>> THEN Raised("EOFError") ELSE content[1]

\* a complete artifact is stored at path
HasArtifact(fs, path) == path \in DOMAIN fs /\ fs[path] # <<>>

\* triage.utils.model_cache_key(project_path, model_hash, s3_conn)
model_cache_key(path, model_hash) == <<path, "trained_models", model_hash>>

\* triage.utils.key_exists(key)
key_exists(fs, key) == IF key \in DOMAIN fs THEN "True" ELSE "False"

\* triage.utils.upload_object_to_key(obj, key): one atomic put
upload_object_to_key(fs, obj, key) ==
    [p \in DOMAIN fs \cup {key} |-> IF p = key THEN PickleDumps(obj) ELSE fs[p]]

\* S3Store.exists: evaluates key_exists(self.path) and returns nothing
S3Store_exists(fs, path) ==
    LET found == key_exists(fs, path) IN "None"

\* FSStore.exists: os.path.isfile(self.path)
FSStore_exists(fs, path) == IF path \in DOMAIN fs THEN "True" ELSE "False"

\* model_store.exists() for the store of the given backend
Store_exists(kind, fs, path) ==
    IF kind = "S3" THEN S3Store_exists(fs, path) ELSE FSStore_exists(fs, path)

\* Python's `not value` for True / False / None
Not(value) == value \in {"False", "None"}

\* open(self.path, 'w+b'): creates the file, or truncates the one there
FSOpenW(fs, path) ==
    [p \in DOMAIN fs \cup {path} |-> IF p = path THEN <<>> ELSE fs[p]]

\* pickle.dump(obj, f) into the file opened at path, then close
FSDumpTo(fs, obj, path) == [fs EXCEPT ![path] = PickleDumps(obj)]

\* triage.utils.download_object(key)
download_object(fs, key) ==
    IF key \in DOMAIN fs THEN PickleLoad(fs[key]) ELSE Raised("NotFound")

\* S3Store.load
S3Store_load(fs, path) == download_object(fs, path)

\* FSStore.load: open(self.path, 'rb') and pickle.load(f)
FSStore_load(fs, path) ==
    IF path \in DOMAIN fs THEN PickleLoad(fs[path])
    ELSE Raised("FileNotFoundError")

\* model_store.load() for the store of the given backend
Store_load(kind, fs, path) ==
    IF kind = "S3" THEN S3Store_load(fs, path) ELSE FSStore_load(fs, path)

\* get_store that drops model_hash from the location: all stores coincide
get_store_SharedLocation(kind, path, model_hash) == <<path, "trained_models">>

\* FSModelStorageEngine.get_store / S3ModelStorageEngine.get_store: the
\* location of the store for model_hash
get_store(kind, path, model_hash) ==
    IF kind = "S3" THEN model_cache_key(path, model_hash)
    ELSE <<path, "trained_models", model_hash>>

(***************************************************************************)
(* The trainer's fixed environment.                                        *)
(***************************************************************************)
project_path == "project"

\* matrix_store.metadata
metadata == [d |-> << <<"label_name", [s |-> "outcome"]>> >>]

\* matrix_store.matrix.columns once the label column is popped
FeatureNames == <<"f1", "f2">>

RF  == "sklearn.ensemble.RandomForestClassifier"
LR  == "sklearn.linear_model.LogisticRegression"
KNN == "sklearn.neighbors.KNeighborsClassifier"

\* the attributes a fitted instance of class_path exposes
FittedAttrs(class_path) ==
    IF class_path = RF THEN << <<"feature_importances_", <<3, 7>> >> >>
    ELSE IF class_path = LR THEN << <<"coef_", << <<2, 5>> >> >> >>
    ELSE <<>>

\* the grid specs (model_config) train_models is called with
GridSpecs ==
    { << <<RF, << <<"n_estimators", <<1, 2>> >> >> >> >>,
      << <<RF, << <<"n_estimators", <<1>> >> >> >>, <<KNN, <<>> >> >>,
      << <<LR, << <<"penalty", <<1>> >>, <<"C", <<1>> >> >> >> >> }

\* get_feature_importances(model)
get_feature_importances(model) ==
    IF "feature_importances_" \in Keys(model.attrs)
    THEN Get(model.attrs, "feature_importances_")
    ELSE IF "coef_" \in Keys(model.attrs)
         THEN LET coef_ == Get(model.attrs, "coef_")
              IN  IF Len(coef_) <= 1 THEN coef_[1] ELSE coef_
         ELSE NoneValue

(***************************************************************************)
(* State.                                                                  *)
(***************************************************************************)
VARIABLES
    backend,             \* "FS" or "S3": the model_storage_engine in use
    hash_seed,           \* the string-hash key of the running process
    files,               \* content of the store backend
    models,              \* rows of results.models, in model_id order
    feature_importances, \* rows of results.feature_importances
    pc,                  \* position inside train_models, "idle" outside
    model_config,        \* argument of the current / last call
    replace,             \* argument of the current / last call
    idx,                 \* index of the grid point being processed
    model_ids,           \* the list train_models builds
    trained_model,       \* the fitted model of the current grid point
    ncalls,              \* calls of train_models so far
    nfits,               \* fitted objects created so far
    outcome,             \* how the last call ended
    result,              \* the list the last call returned
    fitted,              \* grid points of this call whose fit returned
    written,             \* grid points of this call whose write returned
    recorded,            \* grid points of this call whose rows were committed
    hits,                \* grid points of this call that were skipped
    failed,              \* grid point at which this call raised, 0 if none
    prev,                \* summary of the call before the current / last one
    grid,                \* the model_config a generator of grid points runs on
    yielded,             \* what that generator has yielded so far
    config,              \* the inputs of an identity computation
    identity,            \* the identities computed from config
    sort_in,             \* arguments of sort_predictions_and_labels
    sort_out,            \* its return value
    matrix,              \* MatrixStore.matrix: the columns of the data frame
    _labels,             \* MatrixStore._labels
    ret                  \* outcome of the last operation on the matrix store

trainerVars == <<backend, hash_seed, files, models, feature_importances, pc,
                 model_config, replace, idx, model_ids, trained_model, ncalls,
                 nfits, outcome, result, fitted, written, recorded, hits,
                 failed, prev>>

gridVars   == <<grid, yielded>>
hashVars   == <<config, identity>>
sortVars   == <<sort_in, sort_out>>
matrixVars == <<matrix, _labels, ret>>

\* the state of the components train_models does not touch
pureVars == <<gridVars, hashVars, sortVars, matrixVars>>

vars == <<trainerVars, pureVars>>

store    == <<files>>
db       == <<models, feature_importances>>
args     == <<model_config, replace>>
ghosts   == <<fitted, written, recorded, hits>>

\* the SimpleModelTrainer of the running process
trainer == [project_path |-> project_path, metadata |-> metadata,
            hash_seed |-> hash_seed]

\* the grid points of the current call, and the current one
configs      == _generate_model_configs(model_config)
class_path   == configs[idx][1]
parameters   == configs[idx][2]
model_hash   == _model_hash(trainer, class_path, parameters)
model_store  == get_store(backend, project_path, model_hash)

\* the location train_models uses for grid point i of the current call
StoreOf(i) ==
    get_store(backend, project_path,
              _model_hash(trainer, configs[i][1], configs[i][2]))

NoCall == [outcome |-> "none", model_config |-> <<>>, replace |-> FALSE,
           hash_seed |-> 0]

\* the state of a trainer that was just constructed
TrainerInit ==
    /\ backend \in {"FS", "S3"}
    /\ hash_seed = 0      \* the seeds are interchangeable: the first process has 0
    /\ files = <<>>
    /\ models = <<>>
    /\ feature_importances = {}
    /\ pc = "idle"
    /\ model_config = <<>>
    /\ replace = FALSE
    /\ idx = 0
    /\ model_ids = <<>>
    /\ trained_model = NoneValue
    /\ ncalls = 0
    /\ nfits = 0
    /\ outcome = "none"
    /\ result = <<>>
    /\ fitted = {}
    /\ written = {}
    /\ recorded = {}
    /\ hits = {}
    /\ failed = 0
    /\ prev = NoCall

GridIdle   == grid = <<>> /\ yielded = <<>>
HashIdle   == config = NoneValue /\ identity = NoneValue
SortIdle   == sort_in = NoneValue /\ sort_out = NoneValue
MatrixIdle == matrix = <<>> /\ _labels = NoneValue /\ ret = NoneValue

Init == TrainerInit /\ GridIdle /\ HashIdle /\ SortIdle /\ MatrixIdle

(***************************************************************************)
(* train_models, one step per statement that can fail or be interrupted.   *)
(***************************************************************************)
\* the call raises exc while processing the current grid point
Raise(exc) ==
    /\ pc' = "idle"
    /\ outcome' = exc
    /\ failed' = idx
    /\ trained_model' = NoneValue
    /\ UNCHANGED <<backend, hash_seed, args, idx, model_ids, ncalls, nfits,
                   result, prev>>
    /\ UNCHANGED pureVars

\* train_models(model_config, replace) is entered: model_ids = []
TrainModels(cfg, r) ==
    /\ pc = "idle"
    /\ ncalls < MaxCalls
    /\ ncalls' = ncalls + 1
    /\ prev' = [outcome |-> outcome, model_config |-> model_config,
                replace |-> replace, hash_seed |-> hash_seed]
    /\ model_config' = cfg
    /\ replace' = r
    /\ idx' = 1
    /\ model_ids' = <<>>
    /\ trained_model' = NoneValue
    /\ outcome' = "running"
    /\ result' = <<>>
    /\ fitted' = {} /\ written' = {} /\ recorded' = {} /\ hits' = {}
    /\ failed' = 0
    /\ pc' = "loop"
    /\ UNCHANGED <<backend, hash_seed, store, db, nfits>>
    /\ UNCHANGED pureVars

\* Skip with `model_ids.append(model_id)` moved out of the `if`: a skipped
\* grid point appends the id left over from the grid point before it
Skip_AppendsId ==
    /\ pc = "loop"
    /\ idx <= Len(configs)
    /\ ~(replace \/ Not(Store_exists(backend, files, model_store)))
    /\ hits' = hits \cup {idx}
    /\ idx' = idx + 1
    /\ model_ids' = Append(model_ids, IF model_ids = <<>> THEN 0
                                      ELSE model_ids[Len(model_ids)])
    /\ UNCHANGED <<backend, hash_seed, store, db, pc, args,
                   trained_model, ncalls, nfits, outcome, result, fitted,
                   written, recorded, failed, prev>>
    /\ UNCHANGED pureVars

\* `if replace or not model_store.exists()` is false: the grid point is skipped
Skip ==
    /\ pc = "loop"
    /\ idx <= Len(configs)
    /\ ~(replace \/ Not(Store_exists(backend, files, model_store)))
    /\ hits' = hits \cup {idx}
    /\ idx' = idx + 1
    /\ UNCHANGED <<backend, hash_seed, store, db, pc, args, model_ids,
                   trained_model, ncalls, nfits, outcome, result, fitted,
                   written, recorded, failed, prev>>
    /\ UNCHANGED pureVars

\* EnterTrainAndStore without the exists() test: every grid point is trained
EnterTrainAndStore_IgnoresCache ==
    /\ pc = "loop"
    /\ idx <= Len(configs)
    /\ pc' = "train"
    /\ UNCHANGED <<backend, hash_seed, store, db, args, idx, model_ids,
                   trained_model, ncalls, nfits, outcome, result, ghosts,
                   failed, prev>>
    /\ UNCHANGED pureVars

\* `if replace or not model_store.exists()` is true: _train_and_store_model
EnterTrainAndStore ==
    /\ pc = "loop"
    /\ idx <= Len(configs)
    /\ replace \/ Not(Store_exists(backend, files, model_store))
    /\ pc' = "train"
    /\ UNCHANGED <<backend, hash_seed, store, db, args, idx, model_ids,
                   trained_model, ncalls, nfits, outcome, result, ghosts,
                   failed, prev>>
    /\ UNCHANGED pureVars

\* the generator is exhausted: return model_ids
Return ==
    /\ pc = "loop"
    /\ idx > Len(configs)
    /\ pc' = "idle"
    /\ outcome' = "returned"
    /\ result' = model_ids
    /\ UNCHANGED <<backend, hash_seed, store, db, args, idx, model_ids,
                   trained_model, ncalls, nfits, ghosts, failed, prev>>
    /\ UNCHANGED pureVars

\* _train: instance.fit(matrix, y) returns a new fitted object
Train ==
    /\ pc = "train"
    /\ nfits' = nfits + 1
    /\ trained_model' = [class_path |-> class_path, parameters |-> parameters,
                         attrs |-> FittedAttrs(class_path), fit_id |-> nfits + 1]
    /\ fitted' = fitted \cup {idx}
    /\ pc' = "write"
    /\ UNCHANGED <<backend, hash_seed, store, db, args, idx, model_ids,
                   ncalls, outcome, result, written, recorded, hits, failed,
                   prev>>
    /\ UNCHANGED pureVars

\* _train: the constructor or fit raises; train_models has no handler
TrainRaises ==
    /\ pc = "train"
    /\ Raise("FitError")
    /\ UNCHANGED <<store, db, ghosts>>

\* S3Store.write: upload_object_to_key(obj, self.path)
S3Write ==
    /\ pc = "write" /\ backend = "S3"
    /\ files' = upload_object_to_key(files, trained_model, model_store)
    /\ written' = written \cup {idx}
    /\ pc' = "db"
    /\ UNCHANGED <<backend, hash_seed, db, args, idx, model_ids,
                   trained_model, ncalls, nfits, outcome, result, fitted,
                   recorded, hits, failed, prev>>
    /\ UNCHANGED pureVars

\* S3Store.write: the upload raises, nothing is stored
S3WriteRaises ==
    /\ pc = "write" /\ backend = "S3"
    /\ Raise("StorageWriteError")
    /\ UNCHANGED <<store, db, ghosts>>

\* FSStore.write: open(self.path, 'w+b')
FSOpen ==
    /\ pc = "write" /\ backend = "FS"
    /\ files' = FSOpenW(files, model_store)
    /\ pc' = "dump"
    /\ UNCHANGED <<backend, hash_seed, db, args, idx, model_ids,
                   trained_model, ncalls, nfits, outcome, result, ghosts,
                   failed, prev>>
    /\ UNCHANGED pureVars

\* FSStore.write: open raises (missing directory, permissions)
FSOpenRaises ==
    /\ pc = "write" /\ backend = "FS"
    /\ Raise("StorageWriteError")
    /\ UNCHANGED <<store, db, ghosts>>

\* FSStore.write: pickle.dump(obj, f) and the file is closed
FSDump ==
    /\ pc = "dump"
    /\ files' = FSDumpTo(files, trained_model, model_store)
    /\ written' = written \cup {idx}
    /\ pc' = "db"
    /\ UNCHANGED <<backend, hash_seed, db, args, idx, model_ids,
                   trained_model, ncalls, nfits, outcome, result, fitted,
                   recorded, hits, failed, prev>>
    /\ UNCHANGED pureVars

\* the Model row _write_model_to_db adds for the current grid point
NewModelRow ==
    [model_id |-> Len(models) + 1, model_hash |-> model_hash,
     model_type |-> class_path, model_parameters |-> parameters]

\* the FeatureImportance rows _write_model_to_db adds for the new Model row
NewFeatureImportances(importances) ==
    {[model_id |-> Len(models) + 1, feature |-> FeatureNames[i],
      feature_importance |-> importances[i]] : i \in 1..Len(importances)}

\* models.model_hash is UNIQUE: the insert of a second row fails
UniqueViolation(rows, hash) == \E i \in 1..Len(rows) : rows[i].model_hash = hash

\* FSDumpRaises with _write_model_to_db called before model_store.write: the
\* rows are committed when the write fails
FSDumpRaises_RecordedFirst ==
    /\ pc = "dump"
    /\ models' = Append(models, NewModelRow)
    /\ recorded' = recorded \cup {idx}
    /\ Raise("StorageWriteError")
    /\ UNCHANGED <<store, feature_importances, fitted, written, hits>>

\* FSStore.write: pickle.dump raises (disk full, unpicklable object); the
\* file opened with 'w+b' stays behind
FSDumpRaises ==
    /\ pc = "dump"
    /\ Raise("StorageWriteError")
    /\ UNCHANGED <<store, db, ghosts>>

\* _write_model_to_db commits, model_ids.append(model_id), next grid point
WriteModelToDb ==
    /\ pc = "db"
    /\ get_feature_importances(trained_model) # NoneValue
    /\ ~UniqueViolation(models, model_hash)
    /\ models' = Append(models, NewModelRow)
    /\ feature_importances' = feature_importances \cup
           NewFeatureImportances(get_feature_importances(trained_model))
    /\ model_ids' = Append(model_ids, Len(models) + 1)
    /\ recorded' = recorded \cup {idx}
    /\ trained_model' = NoneValue
    /\ idx' = idx + 1
    /\ pc' = "loop"
    /\ UNCHANGED <<backend, hash_seed, store, args, ncalls, nfits, outcome,
                   result, fitted, written, hits, failed, prev>>
    /\ UNCHANGED pureVars

\* _write_model_to_db: enumerate(None) raises before the commit
WriteModelToDbNoImportances ==
    /\ pc = "db"
    /\ get_feature_importances(trained_model) = NoneValue
    /\ Raise("TypeError")
    /\ UNCHANGED <<store, db, ghosts>>

\* _write_model_to_db: session.commit() hits the unique index on model_hash
WriteModelToDbDuplicate ==
    /\ pc = "db"
    /\ get_feature_importances(trained_model) # NoneValue
    /\ UniqueViolation(models, model_hash)
    /\ Raise("IntegrityError")
    /\ UNCHANGED <<store, db, ghosts>>

\* _write_model_to_db: session.commit() fails (connection lost); no row stays
WriteModelToDbCommitFails ==
    /\ pc = "db"
    /\ get_feature_importances(trained_model) # NoneValue
    /\ Raise("RecordStoreError")
    /\ UNCHANGED <<store, db, ghosts>>

\* the process is killed inside train_models; a new process takes over
Crash ==
    /\ pc # "idle"
    /\ pc' = "idle"
    /\ outcome' = "crashed"
    /\ failed' = IF idx <= Len(configs) THEN idx ELSE 0
    /\ trained_model' = NoneValue
    /\ hash_seed' \in HashSeeds
    /\ UNCHANGED <<backend, store, db, args, idx, model_ids, ncalls, nfits,
                   result, ghosts, prev>>
    /\ UNCHANGED pureVars

\* the process exits between two calls; the next call runs in a new process
NewProcess ==
    /\ pc = "idle"
    /\ outcome \notin {"none", "crashed"}
    /\ ncalls < MaxCalls
    /\ hash_seed' \in HashSeeds \ {hash_seed}
    /\ UNCHANGED <<backend, store, db, pc, args, idx, model_ids,
                   trained_model, ncalls, nfits, outcome, result, ghosts,
                   failed, prev>>
    /\ UNCHANGED pureVars

Next ==
    \/ \E cfg \in GridSpecs, r \in BOOLEAN : TrainModels(cfg, r)
    \/ Skip
    \/ EnterTrainAndStore
    \/ Return
    \/ Train
    \/ TrainRaises
    \/ S3Write
    \/ S3WriteRaises
    \/ FSOpen
    \/ FSOpenRaises
    \/ FSDump
    \/ FSDumpRaises
    \/ WriteModelToDb
    \/ WriteModelToDbNoImportances
    \/ WriteModelToDbDuplicate
    \/ WriteModelToDbCommitFails
    \/ Crash
    \/ NewProcess

Spec == Init /\ [][Next]_vars

TypeOK ==
    /\ backend \in {"FS", "S3"}
    /\ hash_seed \in HashSeeds
    /\ pc \in {"idle", "loop", "train", "write", "dump", "db"}
    /\ ncalls \in 0..MaxCalls
    /\ idx \in 0..(Len(configs) + 1)

(***************************************************************************)
(* Properties.                                                             *)
(***************************************************************************)
AllGridPoints == 1..Len(configs)

\* the current / last call repeats the call before it: same grid spec, both
\* with replace=False, the first returned normally; the process that made
\* the current call is still the running one
SecondCallInARow ==
    /\ prev.outcome = "returned"
    /\ prev.model_config = model_config
    /\ ~prev.replace /\ ~replace
    /\ prev.hash_seed = hash_seed

\* C1 (cache idempotence): when train_models(spec, replace=False) is called
\* twice in a row and nothing fails, the second call fits nothing, writes
\* nothing, records nothing and returns the empty list, on either backend.
C1_CacheIdempotence ==
    (SecondCallInARow /\ outcome \in {"running", "returned"}) =>
        /\ fitted = {} /\ written = {} /\ recorded = {}
        /\ pc \in {"loop", "idle"}
        /\ outcome = "returned" => result = <<>>

\* how a call ends when a step fails for a reason that is not the presence
\* of earlier artifacts or Model rows
UnrelatedFailures ==
    {"FitError", "StorageWriteError", "RecordStoreError", "TypeError",
     "crashed"}

\* C2 (cache bypass): a call with replace=True in which no step fails for an
\* unrelated reason completes, and has fitted, written and recorded every
\* grid point of the spec, whatever artifacts and Model rows existed before.
C2_CacheBypass ==
    (replace /\ pc = "idle" /\ outcome \notin UnrelatedFailures \cup {"none"}) =>
        /\ outcome = "returned"
        /\ fitted = AllGridPoints
        /\ written = AllGridPoints
        /\ recorded = AllGridPoints

\* C3 (WRITTEN happens-before RECORDED): in every reachable state every
\* model_hash with a Model row has a complete artifact in the store.
C3_RecordedImpliesWritten ==
    \A i \in 1..Len(models) :
        HasArtifact(files, get_store(backend, project_path, models[i].model_hash))

\* C4 (fit-failure isolation): when fit raised for one grid point of a call,
\* every other grid point of the spec has been processed (skipped as a hit,
\* or recorded) by the time the call is over.
C4_FitFailureIsolation ==
    (pc = "idle" /\ outcome = "FitError") =>
        \A i \in AllGridPoints \ {failed} : i \in hits \cup recorded

\* C5: when the store write fails after a successful fit, the failing step
\* adds no Model row and no FeatureImportance row and appends no id, and the
\* grid point is not recorded afterwards: the call is over.
C5_WriteFailureNotRecorded ==
    /\ [](outcome = "StorageWriteError" =>
            /\ pc = "idle"
            /\ failed \in fitted
            /\ failed \notin recorded
            /\ Len(model_ids) = Cardinality(recorded))
    /\ [][(pc \in {"write", "dump"} /\ outcome' = "StorageWriteError") =>
            /\ models' = models
            /\ feature_importances' = feature_importances
            /\ model_ids' = model_ids
            /\ recorded' = recorded]_vars

\* a write has failed after a successful fit
C5_Witness ==
    outcome = "StorageWriteError" /\ failed \in fitted /\ models # <<>>

\* C6 (cache hit): in a call with replace=False, a step taken at a grid point
\* whose store reports that the identity exists calls no fit, writes nothing
\* to the store and adds no row; it only moves on to the next grid point.
C6_CacheHitChangesNothing ==
    [][(/\ pc = "loop" /\ idx <= Len(configs)
        /\ ~replace
        /\ Store_exists(backend, files, model_store) = "True") =>
           /\ files' = files
           /\ models' = models
           /\ feature_importances' = feature_importances
           /\ nfits' = nfits
           /\ model_ids' = model_ids
           /\ fitted' = fitted /\ written' = written /\ recorded' = recorded
           /\ pc' \in {"loop", "idle"}
           /\ pc' = "loop" => (idx' = idx + 1 /\ idx \in hits')]_vars

\* a grid point was skipped as a cache hit while rows and artifacts exist
C6_Witness ==
    /\ pc = "loop" /\ ~replace /\ models # <<>>
    /\ \E i \in hits : HasArtifact(files, StoreOf(i))

\* the grid points recorded by the current / last call, in grid order
RecordedInOrder ==
    LET all == [i \in AllGridPoints |-> i]
    IN  SelectSeq(all, LAMBDA i : i \in recorded)

\* C7 as stated: the returned list has one entry for every grid point that
\* was trained or was a cache hit in this run.  It is stated for runs that
\* follow no failed or interrupted call, so that every hit is the hit of an
\* artifact that an earlier run wrote completely and recorded.
C7_ResultListsTrainedOrCached ==
    (outcome = "returned" /\ prev.outcome \in {"none", "returned"}) =>
        Len(result) = Cardinality(hits \cup recorded)

\* C7 amended: the returned list holds, in grid order, exactly the model_id
\* of the Model row of every grid point trained and recorded in this run;
\* a cache hit contributes no entry.
C7_ResultListsTrained ==
    outcome = "returned" =>
        /\ hits \cup recorded = AllGridPoints
        /\ hits \cap recorded = {}
        /\ Len(result) = Cardinality(recorded)
        /\ \A k \in 1..Len(result) :
              /\ result[k] \in 1..Len(models)
              /\ models[result[k]].model_id = result[k]
              /\ models[result[k]].model_type = configs[RecordedInOrder[k]][1]
              /\ models[result[k]].model_parameters =
                     configs[RecordedInOrder[k]][2]

\* a call returned after skipping one grid point and training another
C7_Witness ==
    outcome = "returned" /\ hits # {} /\ recorded # {}

\* the locations the model talks about: those holding something, and those
\* of the grid points of the current call
KnownLocations ==
    DOMAIN files \cup
    (IF pc = "idle" THEN {} ELSE {StoreOf(i) : i \in AllGridPoints})

\* C8: outside a write, exists() is true exactly for the locations at which
\* an artifact has been written, for the backend in use, and the two
\* backends answer alike (both true or both not) on the same content.
C8_ExistsIffWritten ==
    pc # "dump" =>
        \A p \in KnownLocations :
            /\ (Store_exists(backend, files, p) = "True") <=> HasArtifact(files, p)
            /\ Not(S3Store_exists(files, p)) = Not(FSStore_exists(files, p))

\* C9: an artifact that has been written is never written again nor changed.
C9_ArtifactImmutable ==
    [][\A p \in DOMAIN files :
          HasArtifact(files, p) => (p \in DOMAIN files' /\ files'[p] = files[p])]_vars

\* C10: a grid point whose artifact is not completely written (its write was
\* interrupted, or never started) is a miss for a replace=False call.
C10_InterruptedWriteIsMiss ==
    (/\ pc = "loop" /\ idx <= Len(configs)
     /\ ~replace
     /\ ~HasArtifact(files, model_store)) =>
        Not(Store_exists(backend, files, model_store))

\* Predictor._load_model(model_id): the hash of the Model row, its store, load
_load_model(model_id) ==
    Store_load(backend, files,
               get_store(backend, project_path, models[model_id].model_hash))

MaxListLen == 3

ClassPaths == {RF, LR, KNN}

GridKeys == {"n_estimators", "C"}

ValueLists == {[i \in 1..n |-> i] : n \in 1..MaxListLen}

\* the inner mappings: no, one or two hyperparameters, in either order
ParameterConfigs ==
    {<<>>}
    \cup {<< <<k, l>> >> : k \in GridKeys, l \in ValueLists}
    \cup {<< <<t[1], t[3]>>, <<t[2], t[4]>> >> :
            t \in {u \in GridKeys \X GridKeys \X ValueLists \X ValueLists :
                     u[1] # u[2]}}

\* the grid specs: no, one or two class paths
GridInputs ==
    {<<>>}
    \cup {<< <<c, pc1>> >> : c \in ClassPaths, pc1 \in ParameterConfigs}
    \cup {<< <<t[1], t[3]>>, <<t[2], t[4]>> >> :
            t \in {u \in ClassPaths \X ClassPaths \X ParameterConfigs
                                    \X ParameterConfigs : u[1] # u[2]}}

\* the state of the other components while a specification leaves them alone
TrainerIdle == TrainerInit /\ backend = "FS"

InitGrid ==
    /\ TrainerIdle /\ HashIdle /\ SortIdle /\ MatrixIdle
    /\ grid \in GridInputs
    /\ yielded = <<>>

\* next(generator): the next (class_path, parameters) pair
GenNext ==
    /\ Len(yielded) < Len(_generate_model_configs(grid))
    /\ yielded' = Append(yielded,
                         _generate_model_configs(grid)[Len(yielded) + 1])
    /\ UNCHANGED <<grid, trainerVars, hashVars, sortVars, matrixVars>>

\* _generate_model_configs(grid) is called again: a new generator
GenRestart ==
    /\ yielded # <<>>
    /\ yielded' = <<>>
    /\ UNCHANGED <<grid, trainerVars, hashVars, sortVars, matrixVars>>

NextGrid == GenNext \/ GenRestart

SpecGrid == InitGrid /\ [][NextGrid]_vars

\* the generator has raised StopIteration
Exhausted == Len(yielded) = Len(_generate_model_configs(grid))

\* product of the lengths of the candidate lists of one inner mapping
RECURSIVE ProductOfLengths(_)
ProductOfLengths(parameter_config) ==
    IF parameter_config = <<>> THEN 1
    ELSE Len(Head(parameter_config)[2]) * ProductOfLengths(Tail(parameter_config))

\* product over the identifiers of ProductOfLengths
RECURSIVE ProductOverIdentifiers(_)
ProductOverIdentifiers(spec) ==
    IF spec = <<>> THEN 1
    ELSE ProductOfLengths(Head(spec)[2]) * ProductOverIdentifiers(Tail(spec))

\* sum over the identifiers of ProductOfLengths
RECURSIVE SumOverIdentifiers(_)
SumOverIdentifiers(spec) ==
    IF spec = <<>> THEN 0
    ELSE ProductOfLengths(Head(spec)[2]) + SumOverIdentifiers(Tail(spec))

\* C12 as stated: the number of grid points of a (non-empty) grid spec is
\* the product, over the identifiers, of the product of the list lengths.
C12_CountIsProductOverIdentifiers ==
    (Exhausted /\ grid # <<>>) => Len(yielded) = ProductOverIdentifiers(grid)

\* C12 amended: the number of grid points is the sum, over the identifiers,
\* of the product of the candidate-list lengths of that identifier.
C12_CountIsSumOverIdentifiers ==
    Exhausted => Len(yielded) = SumOverIdentifiers(grid)

\* two identifiers have been expanded, one of them into several grid points
C12_Witness ==
    Exhausted /\ Len(grid) = 2 /\ Len(yielded) >= 4

\* a dict as the set of its items
ItemSet(dict) == {dict[i] : i \in 1..Len(dict)}

\* every way to pick one candidate value per hyperparameter, as item sets
Combinations(parameter_config) ==
    LET ks == Keys(parameter_config)
        vs == UNION {{Get(parameter_config, k)[j] :
                        j \in 1..Len(Get(parameter_config, k))} : k \in ks}
        fs == {f \in [ks -> vs] :
                 \A k \in ks : \E j \in 1..Len(Get(parameter_config, k)) :
                     Get(parameter_config, k)[j] = f[k]}
    IN  {{<<k, f[k]>> : k \in ks} : f \in fs}

\* position of class path c among the identifiers of the grid spec
IdentifierIndex(c) == CHOOSE i \in 1..Len(grid) : grid[i][1] = c

\* C13: the pairs are yielded identifier by identifier in the order of the
\* grid spec; a generator run to its end has yielded every combination of
\* every identifier exactly once and nothing else, which for an empty inner
\* mapping is one grid point with no parameters; a new generator starts over.
C13_EveryCombinationOnceInOrder ==
    /\ \A a, b \in 1..Len(yielded) :
          a < b => IdentifierIndex(yielded[a][1]) <= IdentifierIndex(yielded[b][1])
    /\ \A a \in 1..Len(yielded) :
          /\ \E i \in 1..Len(grid) : grid[i][1] = yielded[a][1]
          /\ ItemSet(yielded[a][2]) \in
                 Combinations(grid[IdentifierIndex(yielded[a][1])][2])
          /\ Len(yielded[a][2]) = Cardinality(ItemSet(yielded[a][2]))
          /\ \A b \in 1..Len(yielded) :
                (yielded[b][1] = yielded[a][1]
                 /\ ItemSet(yielded[b][2]) = ItemSet(yielded[a][2])) => a = b
    /\ Exhausted =>
          \A i \in 1..Len(grid) : \A c \in Combinations(grid[i][2]) :
              \E a \in 1..Len(yielded) :
                  yielded[a][1] = grid[i][1] /\ ItemSet(yielded[a][2]) = c

\* a generator has run to its end over two identifiers, one with an empty
\* inner mapping and one with two hyperparameters given in unsorted order
C13_Witness ==
    /\ Exhausted /\ Len(grid) = 2 /\ Len(yielded) >= 5
    /\ grid[1][2] = <<>>
    /\ Len(grid[2][2]) = 2 /\ grid[2][2][1][1] = "n_estimators"

(***************************************************************************)
(* Identity computation on its own: the identities of one configuration.   *)
(***************************************************************************)
\* every value obtained from a JSON value by reordering the keys of its
\* mappings, at every depth
RECURSIVE Reorderings(_)
Reorderings(value) ==
    IF "d" \in DOMAIN value
    THEN LET n == Len(value.d)
             children == [i \in 1..n |-> Reorderings(value.d[i][2])]
             picks == {f \in [1..n -> UNION {children[i] : i \in 1..n}] :
                         \A i \in 1..n : f[i] \in children[i]}
         IN  {[d |-> [j \in 1..n |-> <<value.d[p[j]][1], f[p[j]]>>]] :
                 p \in Permutations(1..n), f \in picks}
    ELSE {value}

\* every reordering of the keys of a parameters dict
DictReorderings(dict) ==
    {[j \in 1..Len(dict) |-> dict[p[j]]] : p \in Permutations(1..Len(dict))}

\* matrix-store metadata, flat and nested, in every key order
Metadatas ==
    UNION {Reorderings(m) :
             m \in {metadata,
                    [d |-> << <<"label_name", [s |-> "other_outcome"]>> >>],
                    [d |-> << <<"label_name", [s |-> "outcome"]>>,
                              <<"end_time", [n |-> 2016]>> >>],
                    [d |-> << <<"one", [s |-> "two"]>>,
                              <<"three", [d |-> << <<"four", [s |-> "five"]>>,
                                                   <<"six", [s |-> "seven"]>> >>]>> >>]}}

ProjectPaths == {project_path, "other_project"}

\* parameters of a grid point, in every key order
ParameterSets ==
    UNION {DictReorderings(ps) :
             ps \in {<<>>, << <<"n_estimators", 1>> >>, << <<"n_estimators", 2>> >>,
                     << <<"C", 1>>, <<"n_estimators", 1>> >>,
                     << <<"C", 2>>, <<"n_estimators", 1>> >>}}

InitHash ==
    /\ TrainerIdle /\ GridIdle /\ SortIdle /\ MatrixIdle
    /\ config \in [class_path : {RF, KNN}, parameters : ParameterSets,
                   project_path : ProjectPaths, metadata : Metadatas,
                   hash_seed : HashSeeds]
    /\ identity = NoneValue

\* the identities of config are computed: _model_hash by a trainer with the
\* project path, metadata and hash seed of config, filename_friendly_hash of
\* the metadata
ComputeIdentity ==
    /\ identity = NoneValue
    /\ identity' = [model_hash |-> _model_hash(config, config.class_path,
                                                config.parameters),
                    filename |-> filename_friendly_hash(config.metadata)]
    /\ UNCHANGED <<config, trainerVars, gridVars, sortVars, matrixVars>>

NextHash == ComputeIdentity

SpecHash == InitHash /\ [][NextHash]_vars

\* C14 (fingerprint stability): every reordering of the keys of the
\* configuration, at any depth, has the identity of the configuration; for
\* filename_friendly_hash, and for _model_hash over reordered parameters and
\* reordered metadata.
C14_FingerprintStability ==
    identity # NoneValue =>
        /\ \A m \in Reorderings(config.metadata) :
              filename_friendly_hash(m) = identity.filename
        /\ \A m \in Reorderings(config.metadata) :
              \A ps \in DictReorderings(config.parameters) :
                  _model_hash([config EXCEPT !.metadata = m], config.class_path, ps)
                      = identity.model_hash

\* identities were computed for nested metadata and two hyperparameters
C14_Witness ==
    /\ identity # NoneValue
    /\ Len(config.parameters) = 2
    /\ Cardinality(Reorderings(config.metadata)) = 4

\* C16: a trainer with the same class path and parameters but another project
\* path, or metadata of other content, computes another identity, and its
\* store is at another location on either backend.
C16_IdentityDependsOnContext ==
    identity # NoneValue =>
        \A pp \in ProjectPaths, m \in Metadatas :
            (pp # config.project_path
             \/ JsonDumpsSorted(m) # JsonDumpsSorted(config.metadata)) =>
                LET other == _model_hash([config EXCEPT !.project_path = pp,
                                                        !.metadata = m],
                                         config.class_path, config.parameters)
                IN  /\ other # identity.model_hash
                    /\ \A kind \in {"FS", "S3"} :
                          get_store(kind, pp, other) #
                              get_store(kind, pp, identity.model_hash)

\* an identity was computed for a trainer on a data set with metadata
C16_Witness ==
    identity # NoneValue /\ config.metadata = metadata /\ config.class_path = RF

(***************************************************************************)
(* Identities across processes (train_models state machine).               *)
(***************************************************************************)
\* the identity a process with hash seed s computes for grid point i of the
\* current grid spec
IdentityIn(s, i) ==
    _model_hash([trainer EXCEPT !.hash_seed = s], configs[i][1], configs[i][2])

\* C15 (process independence): during a train_models(replace=False) call on
\* the file-system store, an artifact that some process wrote for a grid
\* point of the spec lies under the identity the calling process computes for
\* that grid point, and the call does not fit a grid point whose artifact an
\* earlier process wrote.
C15_ProcessIndependentIdentity ==
    (backend = "FS" /\ ~replace /\ outcome = "running") =>
        \A i \in AllGridPoints : \A s \in HashSeeds :
            HasArtifact(files, get_store(backend, project_path, IdentityIn(s, i))) =>
                /\ IdentityIn(s, i) = IdentityIn(hash_seed, i)
                /\ s # hash_seed => i \notin fitted

(***************************************************************************)
(* Ranked prediction sorter (triage.utils.sort_predictions_and_labels).    *)
(***************************************************************************)
MaxScores == 3
Scores == {4, 5, 6}
SortSeeds == {0, 1, 2, 3}

\* the i-th number the pseudo-random generator draws after random.seed(seed):
\* a function of the seed and i alone, distinct for the positions of one call
RandomDraw(seed, i) == ((seed + 1) * i) % 5

\* zip(predictions, labels) with the sort key (score, random draw) of each pair,
\* the draws taken in input order
KeyedPairs(predictions, labels, sort_seed) ==
    [i \in 1..Len(predictions) |->
        [score |-> predictions[i], label |-> labels[i],
         draw |-> RandomDraw(sort_seed, i)]]

\* a sorts before b in descending order of (score, draw)
Before(a, b) ==
    \/ a.score > b.score
    \/ a.score = b.score /\ a.draw > b.draw

\* insertion of one keyed pair into a sequence sorted in descending order
RECURSIVE Insert(_, _)
Insert(pair, sorted) ==
    IF sorted = <<>> THEN <<pair>>
    ELSE IF Before(pair, Head(sorted)) THEN <<pair>> \o sorted
    ELSE <<Head(sorted)>> \o Insert(pair, Tail(sorted))

\* sorted(pairs, key=..., reverse=True)
RECURSIVE SortedDescending(_)
SortedDescending(pairs) ==
    IF pairs = <<>> THEN <<>>
    ELSE Insert(Head(pairs), SortedDescending(Tail(pairs)))

\* scores and labels each sorted on their own, the pairing given up
sort_predictions_and_labels_Unpaired(predictions, labels, sort_seed) ==
    LET byScore == SortedDescending(KeyedPairs(predictions, labels, sort_seed))
        byLabel == SortedDescending(
                       [i \in 1..Len(labels) |->
                           [score |-> IF labels[i] THEN 1 ELSE 0,
                            label |-> labels[i],
                            draw |-> RandomDraw(sort_seed, i)]])
    IN  <<[i \in 1..Len(byScore) |-> byScore[i].score],
          [i \in 1..Len(byLabel) |-> byLabel[i].label]>>

\* sort_predictions_and_labels(predictions, labels, sort_seed): seeds the
\* generator, sorts the pairs by (score, random draw) descending and unzips
sort_predictions_and_labels(predictions, labels, sort_seed) ==
    LET ranked == SortedDescending(KeyedPairs(predictions, labels, sort_seed))
    IN  <<[i \in 1..Len(ranked) |-> ranked[i].score],
          [i \in 1..Len(ranked) |-> ranked[i].label]>>

SortInputs ==
    UNION {[predictions : [1..n -> Scores], labels : [1..n -> BOOLEAN],
            sort_seed : SortSeeds] : n \in 0..MaxScores}

InitSort ==
    /\ TrainerIdle /\ GridIdle /\ HashIdle /\ MatrixIdle
    /\ sort_in \in SortInputs
    /\ sort_out = NoneValue

Rank ==
    /\ sort_out = NoneValue
    /\ sort_out' = sort_predictions_and_labels(sort_in.predictions,
                                               sort_in.labels, sort_in.sort_seed)
    /\ UNCHANGED <<sort_in, trainerVars, gridVars, hashVars, matrixVars>>

\* the caller drops the result; the next call ranks the same input again
RankAgain ==
    /\ sort_out # NoneValue
    /\ sort_out' = NoneValue
    /\ UNCHANGED <<sort_in, trainerVars, gridVars, hashVars, matrixVars>>

NextSort == Rank \/ RankAgain

SpecSort == InitSort /\ [][NextSort]_vars

\* C17 (ranking permutation-consistency): the two output sequences have the
\* input length and are one permutation of the input pairs applied to both,
\* the scores are non-increasing, and ranking the same (scores, labels, seed)
\* again gives the same output.
C17_RankingPermutationConsistency ==
    sort_out # NoneValue =>
        LET n == Len(sort_in.predictions)
        IN  /\ Len(sort_out[1]) = n /\ Len(sort_out[2]) = n
            /\ \E p \in Permutations(1..n) :
                  \A i \in 1..n : /\ sort_out[1][i] = sort_in.predictions[p[i]]
                                  /\ sort_out[2][i] = sort_in.labels[p[i]]
            /\ \A i \in 1..n : \A j \in 1..n :
                  i < j => sort_out[1][i] >= sort_out[1][j]
            /\ sort_out = sort_predictions_and_labels(
                              sort_in.predictions, sort_in.labels, sort_in.sort_seed)

\* a ranking with two tied scores of different labels, out of input order
C17_Witness ==
    /\ sort_out # NoneValue
    /\ sort_in.predictions = <<5, 4, 6>>
    /\ sort_in.labels = <<FALSE, TRUE, TRUE>>
    /\ sort_out = << <<6, 5, 4>>, <<TRUE, FALSE, TRUE>> >>

(***************************************************************************)
(* Record store and artifacts (train_models state machine).                *)
(***************************************************************************)
\* C18 (at most one record per identity): the record store holds at most one
\* Model row per model_hash, and no train_models call on the file-system
\* store that follows calls that returned normally has a second Model row for
\* a recorded model_hash refused by the unique index.
C18_AtMostOneRecordPerIdentity ==
    /\ \A i \in 1..Len(models) : \A j \in 1..Len(models) :
          models[i].model_hash = models[j].model_hash => i = j
    /\ (backend = "FS" /\ prev.outcome \in {"none", "returned"}) =>
          outcome # "IntegrityError"

\* grid point i of the current grid spec has a Model row
HasModelRow(i) ==
    \E k \in 1..Len(models) :
        models[k].model_hash = _model_hash(trainer, configs[i][1], configs[i][2])

\* C19 (no orphaned artifact after a completed run): when a
\* train_models(spec, replace=False) call that follows a call whose record
\* step raised for a model without feature importances has returned normally,
\* every grid point of spec whose artifact is in the store has a Model row.
C19_NoOrphanedArtifact ==
    (pc = "idle" /\ outcome = "returned" /\ ~replace /\ prev.outcome = "TypeError") =>
        \A i \in AllGridPoints : HasArtifact(files, StoreOf(i)) => HasModelRow(i)

(***************************************************************************)
(* Matrix store (MatrixStore.labels, _train, Predictor.predict).           *)
(* A DataFrame is a dict from column name to column; a column (Series) is  *)
(* a record holding the values by row index.                               *)
(***************************************************************************)
NumRows == 2
ColumnNames == <<"feature_one", "feature_two", "outcome">>
ColumnValues == {[values |-> v] : v \in [1..NumRows -> {0, 1}]}

\* metadata of a matrix store used for training and for prediction
matrix_metadata == [d |-> << <<"label_name", [s |-> "outcome"]>>,
                             <<"end_time", [n |-> 2016]>> >>]

label_name == Get(matrix_metadata.d, "label_name").s

\* matrices with a label column and two feature columns, in any column order
Matrices ==
    {[j \in 1..Len(ColumnNames) |-> <<ColumnNames[p[j]], values[p[j]]>>] :
        p \in Permutations(1..Len(ColumnNames)),
        values \in [1..Len(ColumnNames) -> ColumnValues]}

\* DataFrame.columns
Columns(frame) == [j \in 1..Len(frame) |-> frame[j][1]]

\* DataFrame.pop(item): the frame without the column and the column, or
\* KeyError when the frame has no such column
DataFramePop(frame, item) ==
    IF item \in Keys(frame)
    THEN [frame |-> SelectSeq(frame, LAMBDA c : c[1] # item),
          column |-> Get(frame, item)]
    ELSE Raised("KeyError")

\* model.predict(matrix) of a loaded model: one score per row
ModelPredict(frame) ==
    [i \in 1..NumRows |-> IF frame = <<>> THEN 0 ELSE frame[1][2].values[i]]

InitMatrix ==
    /\ TrainerIdle /\ GridIdle /\ HashIdle /\ SortIdle
    /\ matrix \in Matrices
    /\ _labels = NoneValue
    /\ ret = NoneValue

\* MatrixStore.labels on a store with matrix m and cached labels `cached`:
\* the store afterwards and the value returned or the exception raised
labels(m, cached) ==
    IF cached # NoneValue
    THEN [matrix |-> m, _labels |-> cached, ret |-> cached]
    ELSE LET popped == DataFramePop(m, label_name)
         IN  IF "raised" \in DOMAIN popped
             THEN [matrix |-> m, _labels |-> cached, ret |-> popped]
             ELSE [matrix |-> popped.frame, _labels |-> popped.column,
                   ret |-> popped.column]

\* a caller asks the matrix store for its labels
CallLabels ==
    LET after == labels(matrix, _labels)
    IN  /\ matrix' = after.matrix
        /\ _labels' = after._labels
        /\ ret' = IF "raised" \in DOMAIN after.ret THEN after.ret
                  ELSE [labels |-> after.ret]
        /\ UNCHANGED <<trainerVars, gridVars, hashVars, sortVars>>

\* SimpleModelTrainer._train for one grid point: y = labels(), then
\* fit(matrix, y); returns the fitted model and matrix.columns
FitGridPoint ==
    LET after == labels(matrix, _labels)
    IN  /\ matrix' = after.matrix
        /\ _labels' = after._labels
        /\ ret' = IF "raised" \in DOMAIN after.ret THEN after.ret
                  ELSE [fit_X |-> Columns(after.matrix), fit_y |-> after.ret]
        /\ UNCHANGED <<trainerVars, gridVars, hashVars, sortVars>>

\* Predictor.predict(model_id, matrix_store): pops the label column from the
\* matrix itself, predicts on what is left and writes one Prediction row per
\* entity; returns the predictions
Predict ==
    LET popped == DataFramePop(matrix, label_name)
    IN  /\ IF "raised" \in DOMAIN popped
           THEN /\ ret' = popped
                /\ matrix' = matrix
           ELSE /\ matrix' = popped.frame
                /\ ret' = [predictions |-> ModelPredict(popped.frame),
                           rows |-> {[entity_id |-> i,
                                      as_of_date |-> Get(matrix_metadata.d, "end_time").n,
                                      entity_score |-> ModelPredict(popped.frame)[i],
                                      label_value |-> popped.column.values[i]] :
                                        i \in 1..NumRows}]
        /\ UNCHANGED <<_labels, trainerVars, gridVars, hashVars, sortVars>>

NextMatrix == CallLabels \/ FitGridPoint \/ Predict

SpecMatrix == InitMatrix /\ [][NextMatrix]_vars

\* C20 (label extraction): the matrix passed to fit has no label column, a
\* labels() call on a store that has its labels returns them and leaves the
\* matrix as it is, and no labels() call, grid point or Predictor.predict on
\* the matrix store fails to find the label column.
C20_LabelsStayAvailable ==
    /\ "fit_X" \in DOMAIN ret =>
          \A j \in 1..Len(ret.fit_X) : ret.fit_X[j] # label_name
    /\ _labels # NoneValue =>
          /\ labels(matrix, _labels).ret = _labels
          /\ labels(matrix, _labels).matrix = matrix
    /\ ret # Raised("KeyError")

====
